---- MODULE Spec2Model ----
(***************************************************************************)
(* Model of the version synchronizer of godatabaseversioner                *)
(* (src/version.go, src/listeners.go).                                     *)
(*                                                                         *)
(* A Version is identified by its Number(); the held collection            *)
(* Versioner.Versions is a sequence of numbers.  The collection holds      *)
(* distinct numbers (duplicate numbers are a caller error).  The Applier   *)
(* is the structure's persisted version marker `stored`.  The Listener,    *)
(* the Applier and the Versions' actions are collaborators: each call may  *)
(* succeed or fail, chosen nondeterministically.  One Sync call is a chain *)
(* of steps, one step per collaborator call, `pc` being the position in    *)
(* the body of Sync.  `trace` records, in order, every collaborator call   *)
(* made by the running (or last) call and its outcome.                     *)
(***************************************************************************)
EXTENDS Integers, Sequences, FiniteSets, TLC

\* ---- bounds -------------------------------------------------------------
MaxNumber == 2
MaxVersions == 3
MaxCalls == 2
MaxNegative == 3
MaxListeners == 2

\* ---- program constants --------------------------------------------------
\* value reported by CurrentVersion() when no version was ever recorded
Pristine == -1

EventStart == "start"
EventEnd == "end"
EventBeforeSync == "before-sync"
EventAfterSync == "after-sync"
EventBeforeChange == "before-change"
EventAfterChange == "after-change"
EventErrorDuringChange == "error-during-change"
EventError == "error"

\* ---- input domains ------------------------------------------------------
Numbers == Pristine..MaxNumber
Targets == Pristine..(MaxNumber + 1)
\* numbers of the Versions LastVersion is applied to, negative ones included
LastNumbers == (0 - MaxNegative)..MaxNumber

DistinctSeqs(S, n) ==
  { s \in UNION { [1..k -> S] : k \in 0..n } :
      \A i, j \in DOMAIN s : i # j => s[i] # s[j] }

\* ---- errors -------------------------------------------------------------
\* errors returned by the collaborators
ErrListener == "listener error"
ErrRead == "read error"
ErrUpgrade == "upgrade error"
ErrRollback == "rollback error"
ErrPersist == "persist error"

\* An error returned by Sync: the format string of fmt.Errorf and its
\* arguments (event type, version number, listener error text, wrapped error).
\* An absent argument is "" (or <<>> for the number).
SyncError(format, event, version, eventErr, wrapped) ==
  [format |-> format, event |-> event, version |-> version,
   eventErr |-> eventErr, wrapped |-> wrapped]

Nil == SyncError("", "", <<>>, "", "")

EventFailure(type) == SyncError("event %s: %w", type, <<>>, "", ErrListener)

\* ---- trace of collaborator calls ---------------------------------------
Call(op, event, version, error, ok) ==
  [op |-> op, event |-> event, version |-> version, error |-> error, ok |-> ok]

\* Listener.On(Event{type, version, error}) and its outcome
OnCall(type, version, error, ok) == Call("On", type, version, error, ok)

VARIABLES
  Versions,          \* Versioner.Versions (numbers of the held Versions)
  stored,            \* the Applier's recorded current version
  pc,                \* position in the running call
  call,              \* the public operation running / last run
  targetVersion,     \* Sync's parameter
  currentVersion,    \* Sync's local
  upgrade,           \* Sync's local
  versionsToApply,   \* Sync's local
  idx,               \* position of the range loop over versionsToApply
  pending,           \* the failure being reported by error-during-change
  err,               \* what the last Sync returned (Nil: success)
  trace,             \* collaborator calls of the running / last call
  stored0,           \* the stored version when the call was entered
  versions0,         \* the collection when the call was entered
  repeat,            \* the call repeats the target of a Sync that succeeded
  ncalls,            \* number of public calls made
  lastVersionRet,    \* what LastVersion() returned, if it was the last call
  currentVersionRet, \* what Versioner.CurrentVersion() returned, likewise
  Listener,          \* Versioner.Listener: the sub-listeners it broadcasts to
  currentTransaction,\* per sub-listener, TransactionalChangesListener's field
  txLog,             \* the Begin/Commit/Rollback calls made on the database
  broadcast          \* the sub-listener calls of the last Listener.On

vars == <<Versions, stored, pc, call, targetVersion, currentVersion, upgrade,
          versionsToApply, idx, pending, err, trace, stored0, versions0, repeat,
          ncalls, lastVersionRet, currentVersionRet, Listener,
          currentTransaction, txLog, broadcast>>

listenerVars == <<Listener, currentTransaction, txLog, broadcast>>

locals == <<targetVersion, currentVersion, upgrade, versionsToApply, idx>>

\* ---- pure functions -----------------------------------------------------
\* LastVersion: the loop of Versioner.LastVersion with its accumulator
RECURSIVE LastVersionFrom(_, _, _)
LastVersionFrom(versions, i, versionNb) ==
  IF i > Len(versions) THEN versionNb
  ELSE LET number == versions[i]
       IN LastVersionFrom(versions, i + 1,
                          IF number > versionNb THEN number ELSE versionNb)

\* the number of the last element taken for the last version
LastVersionOfLastElement(versions) ==
  IF versions = <<>> THEN 0 ELSE versions[Len(versions)]

LastVersion(versions) == LastVersionFrom(versions, 1, 0)

\* the comparison of the sort turned around
LessReversed(a, b) == a > b

\* sort.Slice(v.Versions, less) with less(i, j) = Number(i) < Number(j)
Less(a, b) == a < b

RECURSIVE InsertSorted(_, _)
InsertSorted(x, s) ==
  IF s = <<>> THEN <<x>>
  ELSE IF Less(x, Head(s)) THEN <<x>> \o s
       ELSE <<Head(s)>> \o InsertSorted(x, Tail(s))

RECURSIVE SortSlice(_)
SortSlice(s) ==
  IF s = <<>> THEN <<>>
  ELSE InsertSorted(s[Len(s)], SortSlice(SubSeq(s, 1, Len(s) - 1)))

\* the window test with the bound on the target's side left out
IsBetweenUnbounded(up, number, current, target) ==
  IF up THEN number > current ELSE number < current

\* the window test with the target's own Version included
IsBetweenInclusive(up, number, current, target) ==
  IF up THEN number > current /\ number <= target
        ELSE number < current /\ number >= target

\* the window test of loadVersionsToApply
IsBetweenCurrentAndTargetVersions(up, number, current, target) ==
  IF up THEN number > current /\ number < target
        ELSE number < current /\ number > target

\* a selected version always appended, whatever the direction
AddToApplyAppend(up, toApply, version) == Append(toApply, version)

\* how loadVersionsToApply adds a selected version: append on upgrade,
\* prepend on rollback
AddToApply(up, toApply, version) ==
  IF up THEN Append(toApply, version) ELSE <<version>> \o toApply

RECURSIVE LoadFrom(_, _, _, _, _, _)
LoadFrom(versions, i, toApply, up, current, target) ==
  IF i > Len(versions) THEN toApply
  ELSE LoadFrom(versions, i + 1,
                IF IsBetweenCurrentAndTargetVersions(up, versions[i], current, target)
                  THEN AddToApply(up, toApply, versions[i])
                  ELSE toApply,
                up, current, target)

loadVersionsToApply(versions, up, current, target) ==
  LoadFrom(versions, 1, <<>>, up, current, target)

\* the equality check left out
IsNoOpMissing(current, target) == FALSE

\* the equality check of Sync
IsNoOp(current, target) == current = target

\* the direction of Sync
IsUpgrade(current, target) == ~(target < current)

\* no value returned by Versioner.CurrentVersion() yet
NoRead == [value |-> <<>>, error |-> ""]

\* ---- listeners ----------------------------------------------------------
\* Versioner.Listener is modelled as an EventBroadcastListener over the
\* sequence Listener of sub-listeners (a listener used directly is the
\* one-element sequence).  A sub-listener is "plain" (any Listener: On may
\* succeed or fail) or "tx" (a TransactionalChangesListener).  A transaction
\* is <<id>>, the nil *sql.Tx is <<>>.
ListenerKinds == {"plain", "tx"}

ListenerLists == UNION { [1..k -> ListenerKinds] : k \in 0..MaxListeners }

TxCall(op, tx, ok, listener) ==
  [op |-> op, tx |-> tx, ok |-> ok, listener |-> listener]

\* the transaction DB.Begin() returns: one not handed out before
NewTx(log) ==
  <<Cardinality({ k \in DOMAIN log : log[k].op = "Begin" /\ log[k].ok }) + 1>>

\* what one call of a sub-listener's On yields: its result ("ok", "fail" or
\* "panic"), the field of the receiver it ran on, the database calls so far
SubResult(result, field, log) == [result |-> result, field |-> field, log |-> log]

\* TransactionalChangesListener.On run on a receiver whose field is `field`;
\* dbOk: whether the database call it makes succeeds.  Commit and Rollback
\* on the nil transaction dereference a nil pointer.
TransactionalOn(i, field, type, dbOk, log) ==
  CASE type = EventBeforeChange ->
         IF dbOk
           THEN SubResult("ok", NewTx(log),
                          Append(log, TxCall("Begin", NewTx(log), TRUE, i)))
           ELSE SubResult("fail", <<>>, Append(log, TxCall("Begin", <<>>, FALSE, i)))
    [] type = EventAfterChange ->
         IF field = <<>>
           THEN SubResult("panic", field, Append(log, TxCall("Commit", <<>>, FALSE, i)))
           ELSE SubResult(IF dbOk THEN "ok" ELSE "fail", <<>>,
                          Append(log, TxCall("Commit", field, dbOk, i)))
    [] type = EventErrorDuringChange ->
         IF field = <<>>
           THEN SubResult("panic", field, Append(log, TxCall("Rollback", <<>>, FALSE, i)))
           ELSE SubResult(IF dbOk THEN "ok" ELSE "fail", <<>>,
                          Append(log, TxCall("Rollback", field, dbOk, i)))
    [] OTHER -> SubResult("ok", field, log)

\* On has a value receiver: it runs on a copy of the listener, so whatever it
\* assigns to the field is gone when it returns
ValueReceiver(before, after) == before

\* what a sub-listener call leaves in the list of calls made
SubCall(i, result) == [listener |-> i, result |-> result]

\* what one call of EventBroadcastListener.On yields: its result, the
\* sub-listener whose failure it returns, the sub-listener calls it made,
\* the fields of the sub-listeners and the database calls after it
BroadcastResult(result, by, calls, fields, log) ==
  [result |-> result, by |-> by, calls |-> calls, fields |-> fields, log |-> log]

\* the loop handing the event to every sub-listener, failed ones or not, and
\* returning the last failure
RECURSIVE BroadcastToAll(_, _, _, _, _, _, _)
BroadcastToAll(listeners, i, choices, type, fields, log, calls) ==
  IF i > Len(listeners)
    THEN LET failed == { k \in DOMAIN calls : calls[k].result # "ok" }
             last == CHOOSE x \in failed : \A y \in failed : y <= x
         IN IF failed = {}
              THEN BroadcastResult("ok", <<>>, calls, fields, log)
              ELSE BroadcastResult(calls[last].result, <<last>>, calls, fields, log)
    ELSE IF listeners[i] = "tx"
      THEN LET r == TransactionalOn(i, fields[i], type, choices[i], log)
           IN BroadcastToAll(listeners, i + 1, choices, type,
                [fields EXCEPT ![i] = ValueReceiver(fields[i], r.field)],
                r.log, Append(calls, SubCall(i, r.result)))
      ELSE BroadcastToAll(listeners, i + 1, choices, type, fields, log,
             Append(calls, SubCall(i, IF choices[i] THEN "ok" ELSE "fail")))

\* the loop of EventBroadcastListener.On from sub-listener i on.  choices[i]
\* tells whether sub-listener i's On succeeds (a plain one) or whether the
\* database call it makes does (a transactional one).
RECURSIVE BroadcastFrom(_, _, _, _, _, _, _)
BroadcastFrom(listeners, i, choices, type, fields, log, calls) ==
  IF i > Len(listeners)
    THEN BroadcastResult("ok", <<>>, calls, fields, log)
    ELSE IF listeners[i] = "tx"
      THEN LET r == TransactionalOn(i, fields[i], type, choices[i], log)
               fields2 == [fields EXCEPT
                             ![i] = ValueReceiver(fields[i], r.field)]
               calls2 == Append(calls, SubCall(i, r.result))
           IN IF r.result # "ok"
                THEN BroadcastResult(r.result, <<i>>, calls2, fields2, r.log)
                ELSE BroadcastFrom(listeners, i + 1, choices, type, fields2,
                                   r.log, calls2)
      ELSE IF ~choices[i]
        THEN BroadcastResult("fail", <<i>>, Append(calls, SubCall(i, "fail")),
                             fields, log)
        ELSE BroadcastFrom(listeners, i + 1, choices, type, fields, log,
                           Append(calls, SubCall(i, "ok")))

\* the possible outcomes of v.Listener.On(Event{type, ...}) in this state
Outcomes(type) ==
  { BroadcastFrom(Listener, 1, choices, type, currentTransaction, txLog, <<>>) :
      choices \in [DOMAIN Listener -> BOOLEAN] }

Ok(o) == o.result = "ok"
Failed(o) == o.result = "fail"

\* no Listener.On made yet
NoBroadcast == [result |-> "ok", by |-> <<>>, calls |-> <<>>]

\* ---- state --------------------------------------------------------------
Returned == pc \in {"idle", "done"}

Init ==
  /\ Versions \in DistinctSeqs(Numbers, MaxVersions)
  /\ stored \in Numbers
  /\ pc = "idle"
  /\ call = "none"
  /\ targetVersion = 0
  /\ currentVersion = 0
  /\ upgrade = TRUE
  /\ versionsToApply = <<>>
  /\ idx = 1
  /\ pending = ""
  /\ err = Nil
  /\ trace = <<>>
  /\ stored0 = stored
  /\ versions0 = Versions
  /\ repeat = FALSE
  /\ ncalls = 0
  /\ lastVersionRet = <<>>
  /\ currentVersionRet = NoRead
  /\ Listener = <<"plain">>
  /\ currentTransaction = <<<<>>>>
  /\ txLog = <<>>
  /\ broadcast = NoBroadcast

\* return from Sync with result e
Return(e) ==
  /\ pc' = "done"
  /\ err' = e

\* a panic raised in a listener unwinds Sync: nothing recovers it
Panic == pc' = "panic"

\* the effects of the Listener.On whose outcome is o
Notify(o) ==
  /\ currentTransaction' = o.fields
  /\ txLog' = o.log
  /\ broadcast' = [result |-> o.result, by |-> o.by, calls |-> o.calls]
  /\ UNCHANGED Listener

\* position after a change has been handled (or before the first one):
\* next element of the range loop, or the code after the loop
LoopAt(i, toApply) == IF i > Len(toApply) THEN "afterSync" ELSE "beforeChange"

\* ---- public calls -------------------------------------------------------
\* Entry of Sync(target) and its first statement: emit start.
SyncEnter(name, target) ==
  /\ Returned
  /\ ncalls < MaxCalls
  /\ ncalls' = ncalls + 1
  /\ call' = name
  /\ targetVersion' = target
  /\ currentVersion' = 0
  /\ upgrade' = TRUE
  /\ versionsToApply' = <<>>
  /\ idx' = 1
  /\ pending' = ""
  /\ stored0' = stored
  /\ versions0' = Versions
  /\ repeat' = (pc = "done" /\ err = Nil /\ targetVersion = target)
  /\ \E o \in Outcomes(EventStart) :
       /\ Notify(o)
       /\ trace' = <<OnCall(EventStart, <<>>, "", Ok(o))>>
       /\ IF Ok(o) THEN pc' = "read" /\ err' = Nil
          ELSE IF Failed(o) THEN Return(EventFailure(EventStart))
          ELSE Panic /\ err' = Nil
  /\ lastVersionRet' = <<>>
  /\ currentVersionRet' = NoRead
  /\ UNCHANGED <<Versions, stored>>

Sync == \E target \in Targets : SyncEnter("Sync", target)

UpgradeToLast == SyncEnter("UpgradeToLast", LastVersion(Versions))

CallLastVersion ==
  /\ Returned
  /\ ncalls < MaxCalls
  /\ ncalls' = ncalls + 1
  /\ lastVersionRet' = <<LastVersion(Versions)>>
  /\ currentVersionRet' = NoRead
  /\ UNCHANGED <<Versions, stored, pc, call, locals, pending, err, trace,
                 stored0, versions0, repeat,
                 listenerVars>>

CallCurrentVersion ==
  /\ Returned
  /\ ncalls < MaxCalls
  /\ ncalls' = ncalls + 1
  /\ \E ok \in BOOLEAN :
       currentVersionRet' = IF ok THEN [value |-> <<stored>>, error |-> ""]
                                  ELSE [value |-> <<>>, error |-> ErrRead]
  /\ lastVersionRet' = <<>>
  /\ UNCHANGED <<Versions, stored, pc, call, locals, pending, err, trace,
                 stored0, versions0, repeat,
                 listenerVars>>

\* ---- steps of Sync ------------------------------------------------------
\* v.CurrentVersion() succeeds; then the equality check, the sort, the
\* direction and the selection, up to the next collaborator call.  Sync has
\* a value receiver, but the copied slice shares its backing array with the
\* caller's Versioner, so the sort reorders the held collection itself.
ReadCurrent ==
  /\ pc = "read"
  /\ trace' = Append(trace, Call("CurrentVersion", "", <<stored>>, "", TRUE))
  /\ currentVersion' = stored
  /\ IF IsNoOp(stored, targetVersion)
       THEN /\ pc' = "endNoOp"
            /\ UNCHANGED <<Versions, upgrade, versionsToApply>>
       ELSE /\ Versions' = SortSlice(Versions)
            /\ upgrade' = IsUpgrade(stored, targetVersion)
            /\ versionsToApply' =
                 loadVersionsToApply(SortSlice(Versions),
                                     IsUpgrade(stored, targetVersion),
                                     stored, targetVersion)
            /\ pc' = "beforeSync"
  /\ UNCHANGED <<stored, call, targetVersion, idx, pending, err, stored0,
                 versions0, repeat, ncalls, lastVersionRet, currentVersionRet,
                 listenerVars>>

\* v.CurrentVersion() fails
ReadCurrentFails ==
  /\ pc = "read"
  /\ trace' = Append(trace, Call("CurrentVersion", "", <<>>, ErrRead, FALSE))
  /\ pending' = ErrRead
  /\ pc' = "readError"
  /\ UNCHANGED <<Versions, stored, call, locals, err, stored0, versions0, repeat,
                 ncalls, lastVersionRet, currentVersionRet,
                 listenerVars>>

\* the listener's failure on the error event returned in place of the read's
EmitErrorVeto ==
  /\ pc = "readError"
  /\ \E o \in Outcomes(EventError) :
       /\ Notify(o)
       /\ trace' = Append(trace, OnCall(EventError, <<>>, pending, Ok(o)))
       /\ IF Ok(o)
            THEN Return(SyncError("could not sync: %w", "", <<>>, "", pending))
          ELSE IF Failed(o) THEN Return(EventFailure(EventError))
          ELSE Panic /\ UNCHANGED err
  /\ UNCHANGED <<Versions, stored, call, locals, pending, stored0, versions0,
                 repeat, ncalls, lastVersionRet, currentVersionRet>>

\* emit error after a failed read, then return
EmitError ==
  /\ pc = "readError"
  /\ \E o \in Outcomes(EventError) :
       /\ Notify(o)
       /\ trace' = Append(trace, OnCall(EventError, <<>>, pending, Ok(o)))
       /\ IF Ok(o)
            THEN Return(SyncError("could not sync: %w", "", <<>>, "", pending))
          ELSE IF Failed(o)
            THEN Return(SyncError("could not sync (event error: %s): %w", "",
                                  <<>>, ErrListener, pending))
          ELSE Panic /\ UNCHANGED err
  /\ UNCHANGED <<Versions, stored, call, locals, pending, stored0, versions0,
                 repeat, ncalls, lastVersionRet, currentVersionRet>>

\* emit end when current == target
EmitEndNoOp ==
  /\ pc = "endNoOp"
  /\ \E o \in Outcomes(EventEnd) :
       /\ Notify(o)
       /\ trace' = Append(trace, OnCall(EventEnd, <<>>, "", Ok(o)))
       /\ IF Ok(o) THEN Return(Nil)
          ELSE IF Failed(o) THEN Return(EventFailure(EventEnd))
          ELSE Panic /\ UNCHANGED err
  /\ UNCHANGED <<Versions, stored, call, locals, pending, stored0, versions0,
                 repeat, ncalls, lastVersionRet, currentVersionRet>>

EmitBeforeSync ==
  /\ pc = "beforeSync"
  /\ \E o \in Outcomes(EventBeforeSync) :
       /\ Notify(o)
       /\ trace' = Append(trace, OnCall(EventBeforeSync, <<>>, "", Ok(o)))
       /\ IF Ok(o) THEN pc' = LoopAt(idx, versionsToApply) /\ UNCHANGED err
          ELSE IF Failed(o) THEN Return(EventFailure(EventBeforeSync))
          ELSE Panic /\ UNCHANGED err
  /\ UNCHANGED <<Versions, stored, call, locals, pending, stored0, versions0,
                 repeat, ncalls, lastVersionRet, currentVersionRet>>

\* before-change emitted with the listener's result dropped
EmitBeforeChangeUnchecked ==
  /\ pc = "beforeChange"
  /\ \E o \in Outcomes(EventBeforeChange) :
       /\ Notify(o)
       /\ trace' = Append(trace, OnCall(EventBeforeChange,
                                     <<versionsToApply[idx]>>, "", Ok(o)))
       /\ IF o.result = "panic" THEN Panic ELSE pc' = "action"
  /\ UNCHANGED <<Versions, stored, call, locals, pending, err, stored0,
                 versions0, repeat, ncalls, lastVersionRet, currentVersionRet>>

EmitBeforeChange ==
  /\ pc = "beforeChange"
  /\ \E o \in Outcomes(EventBeforeChange) :
       /\ Notify(o)
       /\ trace' = Append(trace, OnCall(EventBeforeChange,
                                        <<versionsToApply[idx]>>, "", Ok(o)))
       /\ IF Ok(o) THEN pc' = "action" /\ UNCHANGED err
          ELSE IF Failed(o) THEN Return(EventFailure(EventBeforeChange))
          ELSE Panic /\ UNCHANGED err
  /\ UNCHANGED <<Versions, stored, call, locals, pending, stored0, versions0,
                 repeat, ncalls, lastVersionRet, currentVersionRet>>

\* the action's error reported but the version recorded all the same
ApplyChangeThenPersist ==
  /\ pc = "action"
  /\ LET version == versionsToApply[idx]
         op == IF upgrade THEN "Upgrade" ELSE "Rollback"
         failure == IF upgrade THEN ErrUpgrade ELSE ErrRollback
     IN \E ok \in BOOLEAN :
          /\ trace' = Append(trace, Call(op, "", <<version>>,
                                         IF ok THEN "" ELSE failure, ok))
          /\ pc' = "persist"
          /\ pending' = IF ok THEN pending ELSE failure
  /\ UNCHANGED <<Versions, stored, call, locals, err, stored0, versions0, repeat,
                 ncalls, lastVersionRet, currentVersionRet,
                 listenerVars>>

\* the successful action not followed by SyncVersion
ApplyChangeNoPersist ==
  /\ pc = "action"
  /\ LET version == versionsToApply[idx]
         op == IF upgrade THEN "Upgrade" ELSE "Rollback"
         failure == IF upgrade THEN ErrUpgrade ELSE ErrRollback
     IN \E ok \in BOOLEAN :
          IF ok
            THEN /\ trace' = Append(trace, Call(op, "", <<version>>, "", TRUE))
                 /\ pc' = "afterChange"
                 /\ UNCHANGED pending
            ELSE /\ trace' = Append(trace, Call(op, "", <<version>>, failure, FALSE))
                 /\ pc' = "actionError"
                 /\ pending' = failure
  /\ UNCHANGED <<Versions, stored, call, locals, err, stored0, versions0, repeat,
                 ncalls, lastVersionRet, currentVersionRet,
                 listenerVars>>

\* version.Upgrade() or version.Rollback() per direction
ApplyChange ==
  /\ pc = "action"
  /\ LET version == versionsToApply[idx]
         op == IF upgrade THEN "Upgrade" ELSE "Rollback"
         failure == IF upgrade THEN ErrUpgrade ELSE ErrRollback
     IN \E ok \in BOOLEAN :
          IF ok
            THEN /\ trace' = Append(trace, Call(op, "", <<version>>, "", TRUE))
                 /\ pc' = "persist"
                 /\ UNCHANGED pending
            ELSE /\ trace' = Append(trace, Call(op, "", <<version>>, failure, FALSE))
                 /\ pc' = "actionError"
                 /\ pending' = failure
  /\ UNCHANGED <<Versions, stored, call, locals, err, stored0, versions0, repeat,
                 ncalls, lastVersionRet, currentVersionRet,
                 listenerVars>>

\* the listener's failure on error-during-change left out of the result
EmitActionErrorPlain ==
  /\ pc = "actionError"
  /\ LET version == versionsToApply[idx]
         plain == IF upgrade THEN "upgrade to version %d: %w"
                             ELSE "rollback to version %d: %w"
     IN \E o \in Outcomes(EventErrorDuringChange) :
          /\ Notify(o)
          /\ trace' = Append(trace, OnCall(EventErrorDuringChange, <<version>>,
                                           pending, Ok(o)))
          /\ IF o.result = "panic"
               THEN Panic /\ UNCHANGED err
               ELSE Return(SyncError(plain, "", <<version>>, "", pending))
  /\ UNCHANGED <<Versions, stored, call, locals, pending, stored0, versions0,
                 repeat, ncalls, lastVersionRet, currentVersionRet>>

\* emit error-during-change after a failed action, then return
EmitActionError ==
  /\ pc = "actionError"
  /\ LET version == versionsToApply[idx]
         plain == IF upgrade THEN "upgrade to version %d: %w"
                             ELSE "rollback to version %d: %w"
         double == IF upgrade
                     THEN "upgrade to version %d (event error: %s): %w"
                     ELSE "rollback to version %d (event error: %s): %w"
     IN \E o \in Outcomes(EventErrorDuringChange) :
          /\ Notify(o)
          /\ trace' = Append(trace, OnCall(EventErrorDuringChange, <<version>>,
                                           pending, Ok(o)))
          /\ IF Ok(o)
               THEN Return(SyncError(plain, "", <<version>>, "", pending))
             ELSE IF Failed(o) THEN Return(SyncError(double, "", <<version>>,
                    ErrListener, pending))
             ELSE Panic /\ UNCHANGED err
  /\ UNCHANGED <<Versions, stored, call, locals, pending, stored0, versions0,
                 repeat, ncalls, lastVersionRet, currentVersionRet>>

\* v.Applier.SyncVersion(version.Number())
PersistVersion ==
  /\ pc = "persist"
  /\ LET version == versionsToApply[idx]
     IN \E ok \in BOOLEAN :
          IF ok
            THEN /\ trace' = Append(trace, Call("SyncVersion", "", <<version>>, "", TRUE))
                 /\ stored' = version
                 /\ pc' = "afterChange"
                 /\ UNCHANGED pending
            ELSE /\ trace' = Append(trace, Call("SyncVersion", "", <<version>>,
                                                ErrPersist, FALSE))
                 /\ pc' = "persistError"
                 /\ pending' = ErrPersist
                 /\ UNCHANGED stored
  /\ UNCHANGED <<Versions, call, locals, err, stored0, versions0, repeat, ncalls,
                 lastVersionRet, currentVersionRet,
                 listenerVars>>

\* the failed SyncVersion reported, the loop carried on
EmitPersistErrorContinues ==
  /\ pc = "persistError"
  /\ LET version == versionsToApply[idx]
     IN \E o \in Outcomes(EventErrorDuringChange) :
          /\ Notify(o)
          /\ trace' = Append(trace, OnCall(EventErrorDuringChange, <<version>>,
                                           pending, Ok(o)))
          /\ IF Ok(o) THEN pc' = "afterChange" /\ UNCHANGED err
             ELSE IF Failed(o)
               THEN Return(SyncError("sync version to %d (event error: %s): %w",
                    "", <<version>>, ErrListener, pending))
             ELSE Panic /\ UNCHANGED err
  /\ UNCHANGED <<Versions, stored, call, locals, pending, stored0, versions0,
                 repeat, ncalls, lastVersionRet, currentVersionRet>>

\* emit error-during-change after a failed SyncVersion, then return
EmitPersistError ==
  /\ pc = "persistError"
  /\ LET version == versionsToApply[idx]
     IN \E o \in Outcomes(EventErrorDuringChange) :
          /\ Notify(o)
          /\ trace' = Append(trace, OnCall(EventErrorDuringChange, <<version>>,
                                           pending, Ok(o)))
          /\ IF Ok(o)
               THEN Return(SyncError("sync version to %d: %w", "", <<version>>,
                    "", pending))
             ELSE IF Failed(o)
               THEN Return(SyncError("sync version to %d (event error: %s): %w",
                    "", <<version>>, ErrListener, pending))
             ELSE Panic /\ UNCHANGED err
  /\ UNCHANGED <<Versions, stored, call, locals, pending, stored0, versions0,
                 repeat, ncalls, lastVersionRet, currentVersionRet>>

\* after-change emitted, the same Version taken again
EmitAfterChangeNoAdvance ==
  /\ pc = "afterChange"
  /\ \E o \in Outcomes(EventAfterChange) :
       /\ Notify(o)
       /\ trace' = Append(trace, OnCall(EventAfterChange,
                                        <<versionsToApply[idx]>>, "", Ok(o)))
       /\ IF Ok(o) THEN pc' = "beforeChange" /\ UNCHANGED err
          ELSE IF Failed(o) THEN Return(EventFailure(EventAfterChange))
          ELSE Panic /\ UNCHANGED err
  /\ UNCHANGED <<Versions, stored, call, locals, pending, stored0, versions0,
                 repeat, ncalls, lastVersionRet, currentVersionRet>>

EmitAfterChange ==
  /\ pc = "afterChange"
  /\ \E o \in Outcomes(EventAfterChange) :
       /\ Notify(o)
       /\ trace' = Append(trace, OnCall(EventAfterChange,
                                        <<versionsToApply[idx]>>, "", Ok(o)))
       /\ IF Ok(o)
            THEN idx' = idx + 1 /\ pc' = LoopAt(idx + 1, versionsToApply)
                 /\ UNCHANGED err
          ELSE IF Failed(o) THEN Return(EventFailure(EventAfterChange))
                 /\ UNCHANGED idx
          ELSE Panic /\ UNCHANGED err /\ UNCHANGED idx
  /\ UNCHANGED <<Versions, stored, call, targetVersion, currentVersion, upgrade,
                 versionsToApply, pending, stored0, versions0, repeat, ncalls,
                 lastVersionRet, currentVersionRet>>

\* success returned right after after-sync, end never emitted
EmitAfterSyncReturns ==
  /\ pc = "afterSync"
  /\ \E o \in Outcomes(EventAfterSync) :
       /\ Notify(o)
       /\ trace' = Append(trace, OnCall(EventAfterSync, <<>>, "", Ok(o)))
       /\ IF Ok(o) THEN Return(Nil)
          ELSE IF Failed(o) THEN Return(EventFailure(EventAfterSync))
          ELSE Panic /\ UNCHANGED err
  /\ UNCHANGED <<Versions, stored, call, locals, pending, stored0, versions0,
                 repeat, ncalls, lastVersionRet, currentVersionRet>>

EmitAfterSync ==
  /\ pc = "afterSync"
  /\ \E o \in Outcomes(EventAfterSync) :
       /\ Notify(o)
       /\ trace' = Append(trace, OnCall(EventAfterSync, <<>>, "", Ok(o)))
       /\ IF Ok(o) THEN pc' = "end" /\ UNCHANGED err
          ELSE IF Failed(o) THEN Return(EventFailure(EventAfterSync))
          ELSE Panic /\ UNCHANGED err
  /\ UNCHANGED <<Versions, stored, call, locals, pending, stored0, versions0,
                 repeat, ncalls, lastVersionRet, currentVersionRet>>

EmitEnd ==
  /\ pc = "end"
  /\ \E o \in Outcomes(EventEnd) :
       /\ Notify(o)
       /\ trace' = Append(trace, OnCall(EventEnd, <<>>, "", Ok(o)))
       /\ IF Ok(o) THEN Return(Nil)
          ELSE IF Failed(o) THEN Return(EventFailure(EventEnd))
          ELSE Panic /\ UNCHANGED err
  /\ UNCHANGED <<Versions, stored, call, locals, pending, stored0, versions0,
                 repeat, ncalls, lastVersionRet, currentVersionRet>>

Next ==
  \/ Sync
  \/ UpgradeToLast
  \/ CallLastVersion
  \/ CallCurrentVersion
  \/ ReadCurrent
  \/ ReadCurrentFails
  \/ EmitError
  \/ EmitEndNoOp
  \/ EmitBeforeSync
  \/ EmitBeforeChange
  \/ ApplyChange
  \/ EmitActionError
  \/ PersistVersion
  \/ EmitPersistError
  \/ EmitAfterChange
  \/ EmitAfterSync
  \/ EmitEnd

Spec == Init /\ [][Next]_vars

\* One public call, every started call being run on: Sync is synchronous and
\* each collaborator call returns, so a step of Sync that can be taken is
\* taken.  The collections are held in descending order, so that the sort
\* has work to do, and the structure is pristine or at the highest number.
SyncStep ==
  \/ ReadCurrent
  \/ ReadCurrentFails
  \/ EmitError
  \/ EmitEndNoOp
  \/ EmitBeforeSync
  \/ EmitBeforeChange
  \/ ApplyChange
  \/ EmitActionError
  \/ PersistVersion
  \/ EmitPersistError
  \/ EmitAfterChange
  \/ EmitAfterSync
  \/ EmitEnd

InitFair ==
  /\ Versions \in { s \in DistinctSeqs(Numbers, MaxVersions) :
                      \A i, j \in DOMAIN s : i < j => s[i] > s[j] }
  /\ stored \in {Pristine, MaxNumber}
  /\ pc = "idle"
  /\ call = "none"
  /\ targetVersion = 0
  /\ currentVersion = 0
  /\ upgrade = TRUE
  /\ versionsToApply = <<>>
  /\ idx = 1
  /\ pending = ""
  /\ err = Nil
  /\ trace = <<>>
  /\ stored0 = stored
  /\ versions0 = Versions
  /\ repeat = FALSE
  /\ ncalls = MaxCalls - 1
  /\ lastVersionRet = <<>>
  /\ currentVersionRet = NoRead
  /\ Listener = <<"plain">>
  /\ currentTransaction = <<<<>>>>
  /\ txLog = <<>>
  /\ broadcast = NoBroadcast

SpecFair == InitFair /\ [][Next]_vars /\ WF_vars(SyncStep)

\* One Sync or UpgradeToLast, over sorted collections, on a Versioner whose
\* Listener broadcasts to any sub-listeners, transactional ones among them
InitListeners ==
  /\ Versions \in { s \in DistinctSeqs(Numbers, MaxVersions) :
                      \A i, j \in DOMAIN s : i < j => s[i] < s[j] }
  /\ stored \in {Pristine, MaxNumber}
  /\ pc = "idle"
  /\ call = "none"
  /\ targetVersion = 0
  /\ currentVersion = 0
  /\ upgrade = TRUE
  /\ versionsToApply = <<>>
  /\ idx = 1
  /\ pending = ""
  /\ err = Nil
  /\ trace = <<>>
  /\ stored0 = stored
  /\ versions0 = Versions
  /\ repeat = FALSE
  /\ ncalls = MaxCalls - 1
  /\ lastVersionRet = <<>>
  /\ currentVersionRet = NoRead
  /\ Listener \in ListenerLists
  /\ currentTransaction = [i \in DOMAIN Listener |-> <<>>]
  /\ txLog = <<>>
  /\ broadcast = NoBroadcast

SpecListeners == InitListeners /\ [][Next]_vars

\* LastVersion() alone, over collections that may hold negative numbers
InitLast ==
  /\ Versions \in DistinctSeqs(LastNumbers, MaxVersions)
  /\ stored = Pristine
  /\ pc = "idle"
  /\ call = "none"
  /\ targetVersion = 0
  /\ currentVersion = 0
  /\ upgrade = TRUE
  /\ versionsToApply = <<>>
  /\ idx = 1
  /\ pending = ""
  /\ err = Nil
  /\ trace = <<>>
  /\ stored0 = stored
  /\ versions0 = Versions
  /\ repeat = FALSE
  /\ ncalls = 0
  /\ lastVersionRet = <<>>
  /\ currentVersionRet = NoRead
  /\ Listener = <<"plain">>
  /\ currentTransaction = <<<<>>>>
  /\ txLog = <<>>
  /\ broadcast = NoBroadcast

NextLast == CallLastVersion

SpecLast == InitLast /\ [][NextLast]_vars

TypeOK ==
  /\ Versions \in DistinctSeqs(Numbers, MaxVersions)
  /\ stored \in Numbers
  /\ pc \in {"idle", "read", "readError", "endNoOp", "beforeSync",
             "beforeChange", "action", "actionError", "persist",
             "persistError", "afterChange", "afterSync", "end", "done",
             "panic"}
  /\ ncalls \in 0..MaxCalls
  /\ Listener \in ListenerLists
  /\ DOMAIN currentTransaction = DOMAIN Listener
  /\ \A i \in DOMAIN Listener : Len(currentTransaction[i]) <= 1
  /\ broadcast.result \in {"ok", "fail", "panic"}

\* ---- vocabulary of the properties --------------------------------------
Range(s) == { s[i] : i \in DOMAIN s }

IsOn(c) == c.op = "On"
IsCollaborator(c) == c.op # "On"
IsAction(c) == c.op \in {"Upgrade", "Rollback"}
IsChange(c) == c.op \in {"Upgrade", "Rollback", "SyncVersion"}

\* the Applier and Version calls of the run, in order
Collaborators == SelectSeq(trace, IsCollaborator)

\* the event types emitted by the run, in order
Emitted == [i \in DOMAIN SelectSeq(trace, IsOn) |-> SelectSeq(trace, IsOn)[i].event]

NothingFailed == \A i \in DOMAIN trace : trace[i].ok

IsPrefix(s, t) == Len(s) <= Len(t) /\ SubSeq(t, 1, Len(s)) = s

Max(S) == CHOOSE x \in S : \A y \in S : y <= x
Min(S) == CHOOSE x \in S : \A y \in S : x <= y

RECURSIVE Ascending(_)
Ascending(S) == IF S = {} THEN <<>> ELSE <<Min(S)>> \o Ascending(S \ {Min(S)})

RECURSIVE Descending(_)
Descending(S) == IF S = {} THEN <<>> ELSE <<Max(S)>> \o Descending(S \ {Max(S)})

\* the numbers of the held Versions strictly between lo and hi
Between(lo, hi) == { n \in Range(versions0) : lo < n /\ n < hi }

\* the Versions a run has to move, in the order it has to move them
Selected ==
  IF stored0 < targetVersion THEN Ascending(Between(stored0, targetVersion))
                             ELSE Descending(Between(targetVersion, stored0))

\* op(n) then SyncVersion(n), both succeeding, for each n of order
RECURSIVE ChangesOf(_, _)
ChangesOf(op, order) ==
  IF order = <<>> THEN <<>>
  ELSE <<Call(op, "", <<Head(order)>>, "", TRUE),
         Call("SyncVersion", "", <<Head(order)>>, "", TRUE)>>
       \o ChangesOf(op, Tail(order))

ReadOf(n) == Call("CurrentVersion", "", <<n>>, "", TRUE)

InSync == pc # "idle"
SyncDone == pc = "done"

\* ---- C1 ----------------------------------------------------------------
\* C1 (as claimed): when Sync(t) returns success, the Applier's stored
\* version equals t.
C1_SyncReachesTarget ==
  (SyncDone /\ call = "Sync" /\ err = Nil) => stored = targetVersion

\* ---- C2 ----------------------------------------------------------------
\* C2 (as claimed): when UpgradeToLast() returns success on a non-empty set
\* whose stored version was below LastVersion(), the Version with the highest
\* number has had Upgrade() invoked and the stored version is LastVersion().
C2_UpgradeToLastReachesLast ==
  (SyncDone /\ call = "UpgradeToLast" /\ err = Nil /\ versions0 # <<>>
     /\ stored0 < LastVersion(versions0))
  => /\ \E i \in DOMAIN trace :
          trace[i].op = "Upgrade" /\ trace[i].version = <<Max(Range(versions0))>>
     /\ stored = LastVersion(versions0)

\* ---- C3 ----------------------------------------------------------------
\* C3: when current < target and nothing fails, the Applier and Version
\* calls of Sync are the read followed by Upgrade(n), SyncVersion(n) for
\* exactly the n with current < n < target, ascending, whatever the initial
\* order of the collection; no Rollback, nothing outside the window.
C3_UpgradeWindowAscending ==
  (InSync /\ stored0 < targetVersion /\ NothingFailed)
  => /\ IsPrefix(Collaborators,
                 <<ReadOf(stored0)>>
                 \o ChangesOf("Upgrade", Ascending(Between(stored0, targetVersion))))
     /\ SyncDone =>
          /\ err = Nil
          /\ Collaborators =
               <<ReadOf(stored0)>>
               \o ChangesOf("Upgrade", Ascending(Between(stored0, targetVersion)))

\* current = -1, target = 2, the collection held as 2, 0, 1: 0 then 1 are
\* upgraded and recorded, 2 is not
C3_Witness ==
  /\ SyncDone /\ err = Nil
  /\ stored0 = Pristine /\ targetVersion = 2 /\ versions0 = <<2, 0, 1>>
  /\ Collaborators = <<ReadOf(Pristine)>> \o ChangesOf("Upgrade", <<0, 1>>)

\* ---- C4 ----------------------------------------------------------------
\* C4: when current > target and nothing fails, the Applier and Version
\* calls of Sync are the read followed by Rollback(n), SyncVersion(n) for
\* exactly the n with target < n < current, descending, whatever the initial
\* order of the collection; no Upgrade.
C4_RollbackWindowDescending ==
  (InSync /\ stored0 > targetVersion /\ NothingFailed)
  => /\ IsPrefix(Collaborators,
                 <<ReadOf(stored0)>>
                 \o ChangesOf("Rollback", Descending(Between(targetVersion, stored0))))
     /\ SyncDone =>
          /\ err = Nil
          /\ Collaborators =
               <<ReadOf(stored0)>>
               \o ChangesOf("Rollback", Descending(Between(targetVersion, stored0)))

\* current = 2, target = -1, the collection held as 0, 2, 1: 1 then 0 are
\* rolled back and recorded, 2 is not
C4_Witness ==
  /\ SyncDone /\ err = Nil
  /\ stored0 = 2 /\ targetVersion = Pristine /\ versions0 = <<0, 2, 1>>
  /\ Collaborators = <<ReadOf(2)>> \o ChangesOf("Rollback", <<1, 0>>)

\* ---- C5 ----------------------------------------------------------------
\* C5 (as claimed): a Sync whose target is the stored version reads the
\* current version once and makes no other Applier or Version call, emits
\* exactly start, end, and leaves the stored version unchanged.
C5_NoOpEmitsStartEnd ==
  (SyncDone /\ stored0 = targetVersion)
  => /\ Len(SelectSeq(trace, LAMBDA c : c.op = "CurrentVersion")) = 1
     /\ Len(Collaborators) = 1
     /\ Emitted = <<EventStart, EventEnd>>
     /\ stored = stored0

\* C5 (amended): a Sync whose target is the stored version makes no Upgrade,
\* Rollback or SyncVersion call, emits no before-sync, after-sync or
\* per-change event and leaves the stored version unchanged.  Unless the
\* listener fails on start, which ends the run there, it reads the current
\* version exactly once; when that read succeeds the events of the run are
\* exactly start, end, and when it fails they are exactly start, error and
\* Sync returns a failure.  When nothing fails the run is exactly start,
\* CurrentVersion, end and succeeds.
C5_NoOpWhenCurrentIsTarget ==
  (InSync /\ stored0 = targetVersion)
  => /\ stored = stored0
     /\ \A i \in DOMAIN trace : ~IsChange(trace[i])
     /\ Len(Collaborators) <= 1
     /\ \/ IsPrefix(Emitted, <<EventStart, EventEnd>>)
        \/ IsPrefix(Emitted, <<EventStart, EventError>>)
     /\ SyncDone =>
          IF ~trace[1].ok
            THEN /\ trace = <<OnCall(EventStart, <<>>, "", FALSE)>>
                 /\ err # Nil
          ELSE IF Collaborators = <<ReadOf(stored0)>>
            THEN Emitted = <<EventStart, EventEnd>>
          ELSE /\ Collaborators =
                    <<Call("CurrentVersion", "", <<>>, ErrRead, FALSE)>>
               /\ Emitted = <<EventStart, EventError>>
               /\ err # Nil
     /\ (SyncDone /\ NothingFailed)
          => /\ err = Nil
             /\ trace = <<OnCall(EventStart, <<>>, "", TRUE), ReadOf(stored0),
                          OnCall(EventEnd, <<>>, "", TRUE)>>

\* a successful Sync(1) on a structure at version 1 that holds Versions on
\* both sides of 1
C5_Witness ==
  /\ SyncDone /\ err = Nil
  /\ stored0 = 1 /\ targetVersion = 1 /\ versions0 = <<2, 1, 0>>
  /\ Emitted = <<EventStart, EventEnd>>
\* ---- C6 ----------------------------------------------------------------
\* C6 (as claimed): a Sync(v) that follows a successful Sync(v) is cut short
\* at the equality check: it emits only start and end and invokes no
\* Upgrade, Rollback or SyncVersion.
C6_SecondSyncIsNoOp ==
  (SyncDone /\ repeat /\ NothingFailed)
  => /\ Emitted = <<EventStart, EventEnd>>
     /\ \A i \in DOMAIN trace : ~IsChange(trace[i])

\* ---- C7 ----------------------------------------------------------------
\* C7 (as claimed): LastVersion() returns 0 for an empty set and the maximum
\* number present for every non-empty set, all-negative sets included.
C7_LastVersionIsMaximum ==
  lastVersionRet # <<>>
  => lastVersionRet[1] = IF Versions = <<>> THEN 0 ELSE Max(Range(Versions))

\* C7 (amended): LastVersion() returns 0 for an empty set and for a set whose
\* numbers are all negative, and the maximum number present for every other
\* set, whatever the order of the collection.
C7_LastVersionIsMaximumOrZero ==
  lastVersionRet # <<>>
  => lastVersionRet[1] =
       IF Versions = <<>> \/ (\A n \in Range(Versions) : n < 0)
         THEN 0
         ELSE Max(Range(Versions))

\* the maximum held first, before a negative and a smaller number
C7_Witness ==
  /\ Versions = <<2, 0 - 3, 0>>
  /\ lastVersionRet = <<2>>

\* ---- C8 ----------------------------------------------------------------
\* C8: a failure returned by the listener, for whatever event, is the last
\* thing of its run: no Upgrade, Rollback, SyncVersion or notification comes
\* after it and Sync has returned a failure; after a failure on
\* before-change(v), v was never upgraded or rolled back and the stored
\* version is not v.
C8_ListenerVetoStopsSync ==
  \A i \in DOMAIN trace :
    (IsOn(trace[i]) /\ ~trace[i].ok)
    => /\ i = Len(trace)
       /\ SyncDone
       /\ err # Nil
       /\ trace[i].event = EventBeforeChange
            => /\ \A j \in DOMAIN trace :
                    ~(IsChange(trace[j]) /\ trace[j].version = trace[i].version)
               /\ <<stored>> # trace[i].version

\* before-change(1) vetoed after Version 0 was upgraded and recorded
C8_Witness ==
  /\ SyncDone
  /\ stored0 = Pristine /\ targetVersion = 3 /\ versions0 = <<1, 0, 2>>
  /\ trace[Len(trace)] = OnCall(EventBeforeChange, <<1>>, "", FALSE)
  /\ stored = 0

\* ---- C9 ----------------------------------------------------------------
\* C9: when the Upgrade/Rollback of the k-th selected Version v fails, the
\* k-1 Versions selected before it were each applied and recorded once, in
\* order, and nothing else was done to the structure (no SyncVersion(v), no
\* later Version touched, nothing undone); the stored version is the number of
\* the last one recorded, or the initial one if k = 1; the only thing that
\* follows is error-during-change(v), and Sync returns a failure carrying v.
C9_PartialFailure ==
  \A i \in DOMAIN trace :
    (IsAction(trace[i]) /\ ~trace[i].ok)
    => \E k \in DOMAIN Selected :
         LET v == Selected[k]
             op == IF stored0 < targetVersion THEN "Upgrade" ELSE "Rollback"
             failure == IF stored0 < targetVersion THEN ErrUpgrade ELSE ErrRollback
         IN /\ trace[i] = Call(op, "", <<v>>, failure, FALSE)
            /\ Collaborators =
                 <<ReadOf(stored0)>>
                 \o ChangesOf(op, SubSeq(Selected, 1, k - 1))
                 \o <<trace[i]>>
            /\ stored = IF k = 1 THEN stored0 ELSE Selected[k - 1]
            /\ \A j \in DOMAIN trace :
                 (j > i) => /\ j = i + 1
                            /\ IsOn(trace[j])
                            /\ trace[j].event = EventErrorDuringChange
                            /\ trace[j].version = <<v>>
            /\ SyncDone => (err # Nil /\ err.version = <<v>>)

\* Versions 0, 1, 2 from the pristine state: 0 recorded, Upgrade of 1 fails,
\* 2 never attempted, the failure names 1
C9_Witness ==
  /\ SyncDone
  /\ stored0 = Pristine /\ targetVersion = 3 /\ versions0 = <<2, 0, 1>>
  /\ Collaborators = <<ReadOf(Pristine)>> \o ChangesOf("Upgrade", <<0>>)
                     \o <<Call("Upgrade", "", <<1>>, ErrUpgrade, FALSE)>>
  /\ stored = 0
  /\ err = SyncError("upgrade to version %d: %w", "", <<1>>, "", ErrUpgrade)

\* ---- C10 ---------------------------------------------------------------
\* C10: every successful Upgrade/Rollback of n is followed at once by
\* SyncVersion(n) (or SyncVersion(n) is the call about to be made); every
\* SyncVersion(n) comes right after the successful action of n and at most
\* once per n; after-change(n) comes right after the successful
\* SyncVersion(n); and the stored version is the one recorded by the last
\* successful SyncVersion, or the initial one if there is none.
C10_PersistRightAfterAction ==
  /\ \A i \in DOMAIN trace :
       (IsAction(trace[i]) /\ trace[i].ok)
       => IF i = Len(trace)
            THEN pc = "persist"
            ELSE /\ trace[i + 1].op = "SyncVersion"
                 /\ trace[i + 1].version = trace[i].version
  /\ \A i \in DOMAIN trace :
       trace[i].op = "SyncVersion"
       => /\ i > 1
          /\ IsAction(trace[i - 1]) /\ trace[i - 1].ok
          /\ trace[i - 1].version = trace[i].version
          /\ \A j \in DOMAIN trace :
               (trace[j].op = "SyncVersion" /\ trace[j].version = trace[i].version)
               => j = i
  /\ \A i \in DOMAIN trace :
       (IsOn(trace[i]) /\ trace[i].event = EventAfterChange)
       => /\ i > 1
          /\ trace[i - 1] = Call("SyncVersion", "", trace[i].version, "", TRUE)
  /\ LET recorded == { i \in DOMAIN trace :
                         trace[i].op = "SyncVersion" /\ trace[i].ok }
     IN InSync =>
          <<stored>> = IF recorded = {} THEN <<stored0>>
                       ELSE trace[Max(recorded)].version

\* two Versions rolled back, each recorded before its after-change
C10_Witness ==
  /\ SyncDone /\ err = Nil
  /\ Collaborators = <<ReadOf(2)>> \o ChangesOf("Rollback", <<1, 0>>)
  /\ stored = 0
  /\ Len(trace) = 13

\* ---- C11, C12, C17: the listeners ----------------------------------------
\* the transactions begun in log / finished by a Commit or Rollback in log
Begun(log) == { log[k].tx : k \in { j \in DOMAIN log : log[j].op = "Begin" /\ log[j].ok } }
Finished(log) ==
  { log[k].tx : k \in { j \in DOMAIN log : log[j].op \in {"Commit", "Rollback"} } }

\* the transactions open after the database calls of log
Open(log) == Begun(log) \ Finished(log)

\* the transactions sub-listener i has begun and not finished
OpenOf(i, log) ==
  { log[k].tx : k \in { j \in DOMAIN log : /\ log[j].op = "Begin"
                                            /\ log[j].ok
                                            /\ log[j].listener = i } }
    \ Finished(log)

\* the database calls sub-listener i has made: one for each before-change,
\* after-change and error-during-change it has observed
CallsOf(i) == SelectSeq(txLog, LAMBDA c : c.listener = i)

IsChangeEvent(c) ==
  /\ c.op = "On"
  /\ c.event \in {EventBeforeChange, EventAfterChange, EventErrorDuringChange}

\* the change events the Versioner has handed to its Listener
ChangeEvents == SelectSeq(trace, IsChangeEvent)

\* C11: every transaction a transactional sub-listener opens on
\* before-change is retained in its field while open, every Commit and
\* Rollback is applied to the transaction that sub-listener opened last,
\* and no transaction is open when Sync has returned.
C11_EveryScopeReleased ==
  /\ \A i \in DOMAIN Listener :
       OpenOf(i, txLog) # {} => currentTransaction[i] \in OpenOf(i, txLog)
  /\ \A k \in DOMAIN txLog :
       txLog[k].op \in {"Commit", "Rollback"} =>
         txLog[k].tx \in OpenOf(txLog[k].listener, SubSeq(txLog, 1, k - 1))
  /\ SyncDone => Open(txLog) = {}

\* C12: each call of the broadcast listener hands the event to the
\* sub-listeners in list order, each at most once, up to and including the
\* first that fails; it returns that sub-listener's failure, and succeeds
\* exactly when it has reached every sub-listener and none failed.  A
\* transactional sub-listener has acted on exactly the change events that
\* reached it.
C12_BroadcastStopsAtFirstFailure ==
  trace # <<>> =>
    LET calls == broadcast.calls
        n == Len(calls)
        last == trace[Len(trace)]
    IN /\ n <= Len(Listener)
       /\ \A k \in 1..n : calls[k].listener = k
       /\ \A k \in 1..(n - 1) : calls[k].result = "ok"
       /\ broadcast.result = "ok" <=>
            (n = Len(Listener) /\ \A k \in 1..n : calls[k].result = "ok")
       /\ broadcast.result # "ok" =>
            /\ n >= 1
            /\ broadcast.by = <<n>>
            /\ calls[n].result = broadcast.result
       /\ IsOn(last) => (last.ok <=> broadcast.result = "ok")
       /\ \A i \in DOMAIN Listener :
            Listener[i] = "tx" =>
              /\ Len(CallsOf(i)) <= Len(ChangeEvents)
              /\ (\A k \in DOMAIN ChangeEvents : ChangeEvents[k].ok) =>
                   Len(CallsOf(i)) = Len(ChangeEvents)
              /\ (IsChangeEvent(last) /\ i > n) =>
                   Len(CallsOf(i)) < Len(ChangeEvents)

\* before-change fails at the first of two sub-listeners: the transactional
\* one behind it has begun nothing
C12_Witness ==
  /\ Listener = <<"plain", "tx">>
  /\ trace # <<>>
  /\ trace[Len(trace)] = OnCall(EventBeforeChange, <<0>>, "", FALSE)
  /\ broadcast = [result |-> "fail", by |-> <<1>>,
                  calls |-> <<SubCall(1, "fail")>>]
  /\ txLog = <<>>
  /\ SyncDone /\ err = EventFailure(EventBeforeChange)

\* C17: no sub-listener has two transactions open at once, and every Commit
\* and Rollback is applied to a transaction that is open when it is made.
C17_AtMostOneOpenScope ==
  /\ \A i \in DOMAIN Listener :
       \A k \in 0..Len(txLog) :
         Cardinality(OpenOf(i, SubSeq(txLog, 1, k))) <= 1
  /\ \A k \in DOMAIN txLog :
       txLog[k].op \in {"Commit", "Rollback"} =>
         /\ txLog[k].tx # <<>>
         /\ txLog[k].tx \in Open(SubSeq(txLog, 1, k - 1))

\* ---- C13 ---------------------------------------------------------------
\* the first collaborator call of the run that failed
FirstFailure == trace[Min({ i \in DOMAIN trace : ~trace[i].ok })]

\* the phase a returned failure names: the event type of "event %s", or the
\* call named by the other formats
PhaseNamed(e) ==
  CASE e.format = "event %s: %w" -> e.event
    [] e.format \in {"could not sync: %w",
                     "could not sync (event error: %s): %w"} -> "CurrentVersion"
    [] e.format \in {"upgrade to version %d: %w",
                     "upgrade to version %d (event error: %s): %w"} -> "Upgrade"
    [] e.format \in {"rollback to version %d: %w",
                     "rollback to version %d (event error: %s): %w"} -> "Rollback"
    [] e.format \in {"sync version to %d: %w",
                     "sync version to %d (event error: %s): %w"} -> "SyncVersion"
    [] OTHER -> ""

\* the phase in which the run failed
PhaseFailed == IF IsOn(FirstFailure) THEN FirstFailure.event ELSE FirstFailure.op

\* the failure names its phase; a failed call whose report the listener also
\* failed carries the call's error and the listener's
NamesPhaseAndBothErrors ==
  /\ PhaseNamed(err) = PhaseFailed
  /\ IsOn(FirstFailure) => err.wrapped = ErrListener
  /\ IsCollaborator(FirstFailure) =>
       /\ err.wrapped = FirstFailure.error
       /\ err.eventErr = IF trace[Len(trace)].ok THEN "" ELSE ErrListener

\* C13 (as claimed): every failure returned by Sync names its phase and, when
\* raised inside the per-change loop (veto on before-change(v) or
\* after-change(v), failed Upgrade/Rollback or SyncVersion of v), the number
\* of v; a failed call whose report also failed carries both errors.
C13_FailureNamesPhaseAndVersion ==
  (SyncDone /\ err # Nil)
  => /\ NamesPhaseAndBothErrors
     /\ FirstFailure.version # <<>> => err.version = FirstFailure.version

\* C13 (amended): every failure returned by Sync names its phase; a failed
\* Upgrade/Rollback or SyncVersion of v also names the number of v, while a
\* veto on before-change(v) or after-change(v) names the event type only; a
\* failed call whose report also failed carries both errors.
C13_FailureNamesPhase ==
  (SyncDone /\ err # Nil)
  => /\ NamesPhaseAndBothErrors
     /\ IsChange(FirstFailure) => err.version = FirstFailure.version
     /\ IsOn(FirstFailure) => err = EventFailure(FirstFailure.event)

\* Rollback of 1 fails and the listener fails on error-during-change(1)
C13_Witness ==
  /\ SyncDone
  /\ trace[Len(trace)] = OnCall(EventErrorDuringChange, <<1>>, ErrRollback, FALSE)
  /\ err = SyncError("rollback to version %d (event error: %s): %w", "", <<1>>,
                     ErrListener, ErrRollback)

\* ---- C14 ---------------------------------------------------------------
\* the notifications of the run, in order
Notified == SelectSeq(trace, IsOn)

\* The events ev[i..] continue the protocol from position s (v: the version
\* of the open group).  withError: start may be followed by error.
RECURSIVE FollowsProtocol(_, _, _, _, _)
FollowsProtocol(ev, i, s, v, withError) ==
  IF i > Len(ev) THEN TRUE
  ELSE LET e == ev[i]
           then(s2, v2) == FollowsProtocol(ev, i + 1, s2, v2, withError)
       IN CASE s = "init" ->
                 e.event = EventStart /\ then("started", <<>>)
            [] s = "started" ->
                 \/ e.event = EventEnd /\ then("closed", <<>>)
                 \/ e.event = EventBeforeSync /\ then("loop", <<>>)
                 \/ withError /\ e.event = EventError /\ then("closed", <<>>)
            [] s = "loop" ->
                 \/ e.event = EventBeforeChange /\ e.version # <<>>
                      /\ then("group", e.version)
                 \/ e.event = EventAfterSync /\ then("synced", <<>>)
            [] s = "group" ->
                 \/ e.event = EventAfterChange /\ e.version = v /\ then("loop", <<>>)
                 \/ e.event = EventErrorDuringChange /\ e.version = v
                      /\ then("closed", <<>>)
            [] s = "synced" ->
                 e.event = EventEnd /\ then("closed", <<>>)
            [] OTHER -> FALSE

\* end alone exactly when current == target, and a successful run ends with
\* its only end event
EndsAsProtocol ==
  /\ Len(Notified) >= 2 =>
       /\ Notified[2].event = EventEnd => stored0 = targetVersion
       /\ Notified[2].event = EventBeforeSync => stored0 # targetVersion
  /\ (SyncDone /\ err = Nil) =>
       /\ Notified[Len(Notified)].event = EventEnd
       /\ Cardinality({ i \in DOMAIN Notified : Notified[i].event = EventEnd }) = 1

\* C14 (as claimed): the events of every run are a prefix of start, then
\* either end alone (current == target) or before-sync, groups, after-sync,
\* end, each group being before-change(v) then after-change(v) or
\* error-during-change(v), the latter closing the run; a successful run ends
\* with exactly one end.
C14_EventProtocol ==
  InSync => /\ FollowsProtocol(Notified, 1, "init", <<>>, FALSE)
            /\ EndsAsProtocol

\* C14 (amended): as claimed, except that when the read of the current
\* version fails the events of the run are start, error.
C14_EventProtocolWithError ==
  InSync => /\ FollowsProtocol(Notified, 1, "init", <<>>, TRUE)
            /\ EndsAsProtocol
            /\ (\E i \in DOMAIN Notified : Notified[i].event = EventError)
                 => \E j \in DOMAIN trace :
                      trace[j].op = "CurrentVersion" /\ ~trace[j].ok

\* two groups closed by after-change, then a third closed by
\* error-during-change
C14_Witness ==
  /\ SyncDone
  /\ [i \in DOMAIN Notified |-> <<Notified[i].event, Notified[i].version>>]
       = << <<EventStart, <<>> >>, <<EventBeforeSync, <<>> >>,
            <<EventBeforeChange, <<0>> >>, <<EventAfterChange, <<0>> >>,
            <<EventBeforeChange, <<1>> >>, <<EventAfterChange, <<1>> >>,
            <<EventBeforeChange, <<2>> >>, <<EventErrorDuringChange, <<2>> >> >>

\* ---- C15 ---------------------------------------------------------------
\* C15: when CurrentVersion() fails, the run is start, the failed read, then
\* one error event carrying the read's failure; nothing else is emitted or
\* invoked, the stored version and the collection are as before, and Sync
\* returns a failure wrapping the read's error, also when the listener fails
\* on the error event.
C15_ReadFailure ==
  \A i \in DOMAIN trace :
    (trace[i].op = "CurrentVersion" /\ ~trace[i].ok)
    => /\ i = 2
       /\ trace[1] = OnCall(EventStart, <<>>, "", TRUE)
       /\ stored = stored0
       /\ IF Len(trace) = 2
            THEN pc = "readError"
            ELSE /\ Len(trace) = 3
                 /\ IsOn(trace[3])
                 /\ trace[3].event = EventError
                 /\ trace[3].error = trace[2].error
                 /\ SyncDone
                 /\ err # Nil
                 /\ err.wrapped = trace[2].error
                 /\ err.format \in {"could not sync: %w",
                                    "could not sync (event error: %s): %w"}

\* the read fails and the listener fails on the error event
C15_Witness ==
  /\ SyncDone
  /\ Len(versions0) = 3
  /\ trace = <<OnCall(EventStart, <<>>, "", TRUE),
               Call("CurrentVersion", "", <<>>, ErrRead, FALSE),
               OnCall(EventError, <<>>, ErrRead, FALSE)>>
  /\ err.wrapped = ErrRead

\* ---- C16 ---------------------------------------------------------------
\* C16: when SyncVersion(v) fails after v's successful action, the only
\* thing that follows is error-during-change(v) carrying that failure: no
\* after-change(v), after-sync or end, no later Version, no inverse action on
\* v; Sync returns a failure, and the stored version is the one recorded
\* before v although v's action has been applied.
C16_PersistFailure ==
  \A i \in DOMAIN trace :
    (trace[i].op = "SyncVersion" /\ ~trace[i].ok)
    => \E k \in DOMAIN Selected :
         LET v == Selected[k]
             op == IF stored0 < targetVersion THEN "Upgrade" ELSE "Rollback"
         IN /\ trace[i].version = <<v>>
            /\ Collaborators =
                 <<ReadOf(stored0)>>
                 \o ChangesOf(op, SubSeq(Selected, 1, k - 1))
                 \o <<Call(op, "", <<v>>, "", TRUE), trace[i]>>
            /\ stored = IF k = 1 THEN stored0 ELSE Selected[k - 1]
            /\ IF i = Len(trace)
                 THEN pc = "persistError"
                 ELSE /\ Len(trace) = i + 1
                      /\ IsOn(trace[i + 1])
                      /\ trace[i + 1].event = EventErrorDuringChange
                      /\ trace[i + 1].version = <<v>>
                      /\ trace[i + 1].error = trace[i].error
                      /\ SyncDone
                      /\ err # Nil

\* from 2 down to -1: 1 rolled back and recorded, 0 rolled back but
\* SyncVersion(0) fails: the stored version stays 1
C16_Witness ==
  /\ SyncDone
  /\ stored0 = 2 /\ targetVersion = Pristine
  /\ Collaborators = <<ReadOf(2)>> \o ChangesOf("Rollback", <<1>>)
                     \o <<Call("Rollback", "", <<0>>, "", TRUE),
                          Call("SyncVersion", "", <<0>>, ErrPersist, FALSE)>>
  /\ stored = 1
  /\ err = SyncError("sync version to %d: %w", "", <<0>>, "", ErrPersist)
\* ---- C18 ---------------------------------------------------------------
\* C18: within one Sync call Upgrade and Rollback are never both invoked,
\* Upgrade only when target > current and Rollback only when target <
\* current; every value passed to SyncVersion lies strictly between the
\* current version read and the target, and the stored version stays on the
\* current version's side of the target.
C18_DirectionFixed ==
  InSync =>
    /\ ~(/\ \E i \in DOMAIN trace : trace[i].op = "Upgrade"
         /\ \E i \in DOMAIN trace : trace[i].op = "Rollback")
    /\ \A i \in DOMAIN trace :
         /\ trace[i].op = "Upgrade" => targetVersion > stored0
         /\ trace[i].op = "Rollback" => targetVersion < stored0
         /\ trace[i].op = "SyncVersion" =>
              \/ stored0 < trace[i].version[1] /\ trace[i].version[1] < targetVersion
              \/ targetVersion < trace[i].version[1] /\ trace[i].version[1] < stored0
    /\ stored0 < targetVersion => (stored0 <= stored /\ stored < targetVersion)
    /\ stored0 > targetVersion => (stored0 >= stored /\ stored > targetVersion)

\* from 0 to 2 with Versions 0, 1, 2 held: only 1 is upgraded and recorded
C18_Witness ==
  /\ SyncDone /\ err = Nil
  /\ stored0 = 0 /\ targetVersion = 2 /\ Range(versions0) = {0, 1, 2}
  /\ Collaborators = <<ReadOf(0)>> \o ChangesOf("Upgrade", <<1>>)
  /\ stored = 1

\* ---- C19 ---------------------------------------------------------------
\* no call of the run was made twice
NothingRepeated ==
  \A i, j \in DOMAIN trace :
    (/\ trace[i].op = trace[j].op
     /\ trace[i].event = trace[j].event
     /\ trace[i].version = trace[j].version) => i = j

C20_CollectionOnlyReordered ==
  /\ [][/\ Range(Versions') = Range(Versions)
        /\ Len(Versions') = Len(Versions)
        /\ LastVersion(Versions') = LastVersion(Versions)]_vars
  /\ [](InSync =>
          LET read == \E i \in DOMAIN trace :
                        trace[i].op = "CurrentVersion" /\ trace[i].ok
          IN /\ (stored0 = targetVersion \/ ~read) => Versions = versions0
             /\ (read /\ stored0 # targetVersion)
                  => Versions = Ascending(Range(versions0))
             /\ lastVersionRet # <<>>
                  => lastVersionRet[1] = LastVersion(versions0))

\* a collection held as 2, 0, 1 left sorted by a Sync that failed, and
\* LastVersion() called after it
C20_Witness ==
  /\ SyncDone /\ err # Nil
  /\ versions0 = <<2, 0, 1>> /\ Versions = <<0, 1, 2>>
  /\ lastVersionRet = <<2>>
====
